---- MODULE Spec2Model ----
(***************************************************************************)
(* Model of scripts/generate_lang_card.py: the fetch - aggregate - rank -   *)
(* render - write pipeline that produces the "Language Mix" SVG card.       *)
(*                                                                         *)
(* Representation choices:                                                  *)
(*  - a JSON object / Python dict is a sequence of <<key, value>> pairs in  *)
(*    insertion order with distinct keys (dicts keep insertion order, and   *)
(*    the stable sort of main makes that order observable on ties);         *)
(*  - a float is an exact rational [num, den] (den > 0); floating-point     *)
(*    rounding is not modelled;                                             *)
(*  - a path is a sequence of tokens, each the separator "/" or a name;     *)
(*  - the SVG document is the sequence of the elements appended to `svg`.   *)
(***************************************************************************)
EXTENDS Integers, Sequences, FiniteSets, TLC

\* ------------------------------------------------------------------ bounds
\* The account lists at most MaxRepos repositories over all pages.
MaxRepos == 2
\* --top ranges over -1..MaxSmallTop, the default and the default plus one.
MaxSmallTop == 1

\* ------------------------------------------------------- program constants
\* --top default (argparse).
DefaultTop == 8
\* build_svg layout.
line_height == 22
list_start_y == 92
MinHeight == 230
BottomMargin == 24

\* --output default "assets/lang-stats.svg".
DefaultOutput == <<"assets", "/", "lang-stats.svg">>

palette == <<"#3b82f6", "#22c55e", "#f59e0b", "#f43f5e",
             "#8b5cf6", "#38bdf8", "#10b981", "#fb923c">>

OtherColor == "#9ca3af"

\* ------------------------------------------------------------- rationals
Rat(n, d) == [num |-> n, den |-> d]

RECURSIVE GCD(_, _)
GCD(a, b) == IF b = 0 THEN a ELSE GCD(b, a % b)

Abs(n) == IF n < 0 THEN -n ELSE n

\* The same rational in lowest terms (keeps the integers small).
Norm(r) == LET g == GCD(Abs(r.num), r.den) IN Rat(r.num \div g, r.den \div g)

RAdd(a, b) == Norm(Rat(a.num * b.den + b.num * a.den, a.den * b.den))

REq(a, b) == a.num * b.den = b.num * a.den

RLe(a, b) == a.num * b.den <= b.num * a.den

RECURSIVE RSum(_)
RSum(s) == IF s = <<>> THEN Rat(0, 1) ELSE RAdd(Head(s), RSum(Tail(s)))

\* ------------------------------------------------- sequences and slicing
Range(s) == {s[i] : i \in 1..Len(s)}

Min(a, b) == IF a <= b THEN a ELSE b

Max(a, b) == IF a >= b THEN a ELSE b

\* The index a Python slice bound k denotes in a list of length n.
SliceIndex(k, n) == IF k < 0 THEN Max(k + n, 0) ELSE Min(k, n)

\* s[:k]
SliceTo(s, k) == SubSeq(s, 1, SliceIndex(k, Len(s)))

\* s[k:]
SliceFrom(s, k) == SubSeq(s, SliceIndex(k, Len(s)) + 1, Len(s))

RECURSIVE SumSeq(_)
SumSeq(s) == IF s = <<>> THEN 0 ELSE Head(s) + SumSeq(Tail(s))

\* ------------------------------------------------------------------ dicts
Keys(d) == {d[i][1] : i \in 1..Len(d)}

Values(d) == [i \in 1..Len(d) |-> d[i][2]]

\* d.get(k, default)
Get(d, k, default) ==
    IF k \in Keys(d)
    THEN d[CHOOSE i \in 1..Len(d) : d[i][1] = k][2]
    ELSE default

\* d[k] = v : an existing key keeps its position, a new key goes last.
Put(d, k, v) ==
    IF k \in Keys(d)
    THEN [i \in 1..Len(d) |-> IF d[i][1] = k THEN <<k, v>> ELSE d[i]]
    ELSE Append(d, <<k, v>>)

\* ------------------------------------------------------ the GitHub account
\* Repository descriptors the listing endpoint may return.
Repo(fork, archived, disabled, url) ==
    [fork |-> fork, archived |-> archived, disabled |-> disabled,
     languages_url |-> url]

RepoKinds ==
    { Repo(FALSE, FALSE, FALSE, "languages"),
      Repo(TRUE, FALSE, FALSE, "languages"),
      Repo(FALSE, TRUE, FALSE, "languages"),
      Repo(FALSE, FALSE, TRUE, "languages"),
      Repo(FALSE, FALSE, FALSE, "") }

\* Bodies the per-repository languages endpoint may return.
LangResponses ==
    { <<<<"A", 50>>, <<"B", 30>>, <<"C", 20>>>>,
      <<<<"D", 0>>>>,
      <<<<"E", 20>>, <<"A", 20>>, <<"F", 5>>, <<"G", 4>>, <<"H", 3>>,
        <<"I", 2>>, <<"J", 1>>, <<"K", 1>>, <<"L", 1>>>> }

Languages == UNION {Keys(r) : r \in LangResponses}

\* The non-empty pages of at most n descriptors.
PagesUpTo(n) == UNION {[1..k -> RepoKinds] : k \in 1..n}

\* --------------------------------------------------- collect_language_totals
\* Variant: the disabled flag is not consulted.
SkippedIgnoringDisabled(repo) ==
    \/ repo.fork
    \/ repo.archived
    \/ repo.languages_url = ""

\* The loop's three `continue` guards: the repository is not fetched.
Skipped(repo) ==
    \/ repo.fork
    \/ repo.archived \/ repo.disabled
    \/ repo.languages_url = ""

\* for language, size in languages.items(): totals[language] = totals.get(language, 0) + size
RECURSIVE Accumulate(_, _)
Accumulate(acc, languages) ==
    IF languages = <<>>
    THEN acc
    ELSE Accumulate(Put(acc, Head(languages)[1],
                        Get(acc, Head(languages)[1], 0) + Head(languages)[2]),
                    Tail(languages))

\* ------------------------------------------------------------------ ranking
\* Insert x after every element whose value is >= x's: a stable descending order.
RECURSIVE InsertDesc(_, _)
InsertDesc(s, x) ==
    IF s = <<>> THEN <<x>>
    ELSE IF Head(s)[2] >= x[2] THEN <<Head(s)>> \o InsertDesc(Tail(s), x)
    ELSE <<x>> \o s

\* sorted(totals.items(), key=lambda item: item[1], reverse=True)
RECURSIVE SortedLangs(_)
SortedLangs(d) ==
    IF d = <<>> THEN <<>>
    ELSE InsertDesc(SortedLangs(SubSeq(d, 1, Len(d) - 1)), d[Len(d)])

\* sorted_langs[: args.top]
TopLangs(sorted_langs, top) == SliceTo(sorted_langs, top)

\* Variant: the remainder taken one position late, sorted_langs[args.top + 1 :].
RestLangsFromNext(sorted_langs, top) == SliceFrom(sorted_langs, top + 1)

\* sorted_langs[args.top :]
RestLangs(sorted_langs, top) == SliceFrom(sorted_langs, top)

\* sum(value for _, value in sorted_langs[args.top :])
OtherBytes(sorted_langs, top) == SumSeq(Values(RestLangs(sorted_langs, top)))

\* (value / total_bytes) * 100
Percent(value, total) == Rat(value * 100, total)

\* Variant: the index is clamped to the palette instead of wrapping.
PaletteColorClamped(idx) == palette[Min(idx, Len(palette) - 1) + 1]

\* palette[idx % len(palette)], idx counted from 0
PaletteColor(idx) == palette[(idx % Len(palette)) + 1]

Item(name, percent, color) == [name |-> name, percent |-> percent, color |-> color]

\* The items list of main for a non-zero total (lines 201-224).
RankedItems(d, top) ==
    LET total == SumSeq(Values(d))
        sorted_langs == SortedLangs(d)
        top_langs == TopLangs(sorted_langs, top)
        other_bytes == OtherBytes(sorted_langs, top)
        kept == [i \in 1..Len(top_langs) |->
                    Item(top_langs[i][1], Percent(top_langs[i][2], total),
                         PaletteColor(i - 1))]
    IN  IF other_bytes > 0
        THEN Append(kept, Item("Other", Percent(other_bytes, total), OtherColor))
        ELSE kept

\* ---------------------------------------------------------------- build_svg
Zero == Rat(0, 1)

\* circumference * (percent / 100), in units of the circumference.
ArcLength(percent) == Norm(Rat(percent.num, percent.den * 100))

\* Variant: the running offset is never advanced.
RECURSIVE ArcsAtStart(_, _)
ArcsAtStart(entries, offset) ==
    IF entries = <<>> THEN <<>>
    ELSE IF RLe(Head(entries).percent, Zero)
         THEN ArcsAtStart(Tail(entries), offset)
         ELSE <<[kind |-> "arc", color |-> Head(entries).color,
                 length |-> ArcLength(Head(entries).percent),
                 offset |-> offset]>>
              \o ArcsAtStart(Tail(entries), offset)

\* The loop of lines 137-150: one arc per entry of positive percent, each
\* starting at the running offset, which only a drawn arc advances.
RECURSIVE Arcs(_, _)
Arcs(entries, offset) ==
    IF entries = <<>> THEN <<>>
    ELSE IF RLe(Head(entries).percent, Zero)
         THEN Arcs(Tail(entries), offset)
         ELSE <<[kind |-> "arc", color |-> Head(entries).color,
                 length |-> ArcLength(Head(entries).percent),
                 offset |-> offset]>>
              \o Arcs(Tail(entries), RAdd(offset, ArcLength(Head(entries).percent)))

\* The loop of lines 152-161: one legend row per entry (dot, label, value).
LegendRows(entries) ==
    [i \in 1..Len(entries) |->
        [kind |-> "legend", y |-> list_start_y + (i - 1) * line_height,
         color |-> entries[i].color, name |-> entries[i].name,
         percent |-> entries[i].percent]]

\* height or max(230, list_height + 24), height not supplied
CardHeight(entries) ==
    Max(MinHeight, list_start_y + Len(entries) * line_height + BottomMargin)

Header(entries) ==
    <<[kind |-> "svg", height |-> CardHeight(entries)], [kind |-> "defs"],
      [kind |-> "style"], [kind |-> "card"], [kind |-> "title"],
      [kind |-> "subtitle"]>>

EmptyState == [kind |-> "text", text |-> "No language data"]

build_svg(entries, total) ==
    IF entries = <<>> \/ total = 0
    THEN Header(entries) \o <<EmptyState, [kind |-> "end"]>>
    ELSE Header(entries)
         \o <<[kind |-> "track"], [kind |-> "outline"], [kind |-> "rule"]>>
         \o Arcs(entries, Zero)
         \o LegendRows(entries)
         \o <<[kind |-> "center", percent |-> entries[1].percent,
               name |-> entries[1].name],
              [kind |-> "end"]>>

\* -------------------------------------------------------------- file system
Sep == "/"

Root == <<Sep>>

\* Index of the last separator of p, 0 when it has none (p.rfind("/") + 1).
LastSep(p) ==
    IF \E i \in 1..Len(p) : p[i] = Sep
    THEN CHOOSE i \in 1..Len(p) : p[i] = Sep /\ \A j \in (i + 1)..Len(p) : p[j] # Sep
    ELSE 0

RECURSIVE RStripSep(_)
RStripSep(p) ==
    IF p # <<>> /\ p[Len(p)] = Sep THEN RStripSep(SubSeq(p, 1, Len(p) - 1)) ELSE p

\* posixpath.split: <<head, tail>>
Split(p) ==
    LET i == LastSep(p)
        head == SubSeq(p, 1, i)
        tail == SubSeq(p, i + 1, Len(p))
    IN  <<IF head # <<>> /\ \E j \in 1..Len(head) : head[j] # Sep
          THEN RStripSep(head) ELSE head,
          tail>>

\* os.path.dirname
dirname(p) == Split(p)[1]

IsDir(ds, p) == p \in ds \/ p = Root

Exists(ds, fl, p) == IsDir(ds, p) \/ p \in DOMAIN fl

\* The outcome of a file-system call: the directories afterwards, or an OSError.
Ok(ds) == [ok |-> TRUE, dirs |-> ds]

Raised == [ok |-> FALSE, dirs |-> {}]

\* os.mkdir(name)
Mkdir(ds, fl, name) ==
    IF name = <<>> THEN Raised
    ELSE IF Exists(ds, fl, name) THEN Raised
    ELSE IF dirname(name) # <<>> /\ ~IsDir(ds, dirname(name)) THEN Raised
    ELSE Ok(ds \cup {name})

\* os.makedirs(name, exist_ok=True)
RECURSIVE makedirs(_, _, _)
makedirs(ds, fl, name) ==
    LET s1 == Split(name)
        s2 == IF s1[2] = <<>> THEN Split(s1[1]) ELSE s1
        head == s2[1]
        tail == s2[2]
        above == IF head # <<>> /\ tail # <<>> /\ ~Exists(ds, fl, head)
                 THEN makedirs(ds, fl, head)
                 ELSE Ok(ds)
    IN  IF ~above.ok THEN Raised
        ELSE LET made == Mkdir(above.dirs, fl, name)
             IN  IF made.ok THEN made
                 ELSE IF IsDir(above.dirs, name) THEN above
                 ELSE Raised

\* open(path, "w") succeeds: not a directory, and its directory exists.
CanOpenForWrite(ds, path) ==
    /\ ~IsDir(ds, path)
    /\ dirname(path) = <<>> \/ IsDir(ds, dirname(path))

\* ------------------------------------------------------------------- state
VARIABLES
    pc,           \* where the run is: list_repos, collect, rank, render,
                  \* makedirs, write, done, aborted
    args,         \* parsed command line: [top, output]
    page,         \* list_repos: the next page number
    repos,        \* list_repos: the descriptors gathered so far
    pageLog,      \* every listing request made: [page, ok, data]
    idx,          \* collect_language_totals: position in repos (from 1)
    totals,       \* collect_language_totals: language -> bytes
    fetchLog,     \* every languages request made: [repo, ok, languages]
    total_bytes,  \* main: sum(totals.values())
    items,        \* main: the ranked entries
    svg,          \* main: the rendered document
    dirs,         \* file system: the directories that exist
    files,        \* file system: path -> content
    fs0,          \* the file system before the run: [dirs, files]
    writes,       \* how many times the output was opened for writing
    error         \* the call whose exception ended the run, or "none"

vars == <<pc, args, page, repos, pageLog, idx, totals, fetchLog, total_bytes,
          items, svg, dirs, files, fs0, writes, error>>

\* The program variables and what they hold.
TypeOK ==
    /\ pc \in {"list_repos", "collect", "rank", "render", "makedirs", "write",
               "done", "aborted"}
    /\ error \in {"none", "list_repos", "makedirs", "open"}
    /\ args.top \in Int
    /\ page \in 1..(MaxRepos + 1)
    /\ Len(repos) <= MaxRepos
    /\ \A i \in 1..Len(repos) : repos[i] \in RepoKinds
    /\ idx \in 1..(Len(repos) + 1)
    /\ Cardinality(Keys(totals)) = Len(totals)
    /\ \A i \in 1..Len(totals) : totals[i][2] \in Nat
    /\ total_bytes \in Nat
    /\ writes \in 0..1
    /\ (pc = "aborted") <=> (error # "none")

Tops == (-1..MaxSmallTop) \cup {DefaultTop, DefaultTop + 1}

Outputs ==
    { <<"lang-stats.svg">>,
      DefaultOutput,
      <<"out", "/", "cards", "/", "lang-stats.svg">>,
      <<"/", "lang-stats.svg">> }

\* The directories above a path, the root and the working directory left out.
RECURSIVE Ancestors(_)
Ancestors(p) ==
    LET d == dirname(p)
    IN  IF d = <<>> \/ d = Root THEN {} ELSE {d} \cup Ancestors(d)

NoFiles == [f \in {} |-> <<>>]

OldFile == <<[kind |-> "old"]>>

\* Before the run: nothing exists, or the output and its directories do.
InitialFS(output) ==
    { [dirs |-> {}, files |-> NoFiles],
      [dirs |-> Ancestors(output), files |-> [f \in {output} |-> OldFile]] }

Init ==
    /\ pc = "list_repos"
    /\ args \in [top : Tops, output : Outputs]
    /\ fs0 \in InitialFS(args.output)
    /\ dirs = fs0.dirs
    /\ files = fs0.files
    /\ page = 1
    /\ repos = <<>>
    /\ pageLog = <<>>
    /\ idx = 1
    /\ totals = <<>>
    /\ fetchLog = <<>>
    /\ total_bytes = 0
    /\ items = <<>>
    /\ svg = <<>>
    /\ writes = 0
    /\ error = "none"

\* ---------------------------------------------------------------- list_repos
\* Variant: the page number is not incremented.
FetchSamePage ==
    /\ pc = "list_repos"
    /\ \E data \in PagesUpTo(MaxRepos - Len(repos)) :
        /\ pageLog' = Append(pageLog, [page |-> page, ok |-> TRUE, data |-> data])
        /\ repos' = repos \o data
    /\ page' = page
    /\ UNCHANGED <<pc, args, idx, totals, fetchLog, total_bytes, items, svg,
                   dirs, files, fs0, writes, error>>

\* fetch_json returns a non-empty page: repos.extend(data); page += 1
FetchPage ==
    /\ pc = "list_repos"
    /\ \E data \in PagesUpTo(MaxRepos - Len(repos)) :
        /\ pageLog' = Append(pageLog, [page |-> page, ok |-> TRUE, data |-> data])
        /\ repos' = repos \o data
    /\ page' = page + 1
    /\ UNCHANGED <<pc, args, idx, totals, fetchLog, total_bytes, items, svg,
                   dirs, files, fs0, writes, error>>

\* fetch_json returns an empty page: break; return repos
FetchEmptyPage ==
    /\ pc = "list_repos"
    /\ pageLog' = Append(pageLog, [page |-> page, ok |-> TRUE, data |-> <<>>])
    /\ pc' = "collect"
    /\ UNCHANGED <<args, page, repos, idx, totals, fetchLog, total_bytes, items,
                   svg, dirs, files, fs0, writes, error>>

\* Variant: the failure is caught and taken for the end of the listing.
FetchPageFailureEndsListing ==
    /\ pc = "list_repos"
    /\ pageLog' = Append(pageLog, [page |-> page, ok |-> FALSE, data |-> <<>>])
    /\ pc' = "collect"
    /\ UNCHANGED <<args, page, repos, idx, totals, fetchLog, total_bytes, items,
                   svg, dirs, files, fs0, writes, error>>

\* fetch_json raises: nothing catches it up to main
FetchPageFails ==
    /\ pc = "list_repos"
    /\ pageLog' = Append(pageLog, [page |-> page, ok |-> FALSE, data |-> <<>>])
    /\ pc' = "aborted"
    /\ error' = "list_repos"
    /\ UNCHANGED <<args, page, repos, idx, totals, fetchLog, total_bytes, items,
                   svg, dirs, files, fs0, writes>>

\* --------------------------------------------------- collect_language_totals
\* one of the three `continue` guards holds
SkipRepo ==
    /\ pc = "collect"
    /\ idx <= Len(repos)
    /\ Skipped(repos[idx])
    /\ idx' = idx + 1
    /\ UNCHANGED <<pc, args, page, repos, pageLog, totals, fetchLog, total_bytes,
                   items, svg, dirs, files, fs0, writes, error>>

\* fetch_json(languages_url) returns: every size is added to its total
FetchLanguages ==
    /\ pc = "collect"
    /\ idx <= Len(repos)
    /\ ~Skipped(repos[idx])
    /\ \E languages \in LangResponses :
        /\ fetchLog' = Append(fetchLog, [repo |-> idx, ok |-> TRUE,
                                         languages |-> languages])
        /\ totals' = Accumulate(totals, languages)
    /\ idx' = idx + 1
    /\ UNCHANGED <<pc, args, page, repos, pageLog, total_bytes, items, svg,
                   dirs, files, fs0, writes, error>>

\* Variant: the exception is not caught.
FetchLanguagesFailurePropagates ==
    /\ pc = "collect"
    /\ idx <= Len(repos)
    /\ ~Skipped(repos[idx])
    /\ fetchLog' = Append(fetchLog, [repo |-> idx, ok |-> FALSE, languages |-> <<>>])
    /\ pc' = "aborted"
    /\ error' = "languages"
    /\ UNCHANGED <<args, page, repos, pageLog, idx, totals, total_bytes, items,
                   svg, dirs, files, fs0, writes>>

\* fetch_json(languages_url) raises: except Exception: continue
FetchLanguagesFails ==
    /\ pc = "collect"
    /\ idx <= Len(repos)
    /\ ~Skipped(repos[idx])
    /\ fetchLog' = Append(fetchLog, [repo |-> idx, ok |-> FALSE, languages |-> <<>>])
    /\ idx' = idx + 1
    /\ UNCHANGED <<pc, args, page, repos, pageLog, totals, total_bytes, items,
                   svg, dirs, files, fs0, writes, error>>

\* the loop is exhausted: return totals
ReturnTotals ==
    /\ pc = "collect"
    /\ idx > Len(repos)
    /\ pc' = "rank"
    /\ UNCHANGED <<args, page, repos, pageLog, idx, totals, fetchLog, total_bytes,
                   items, svg, dirs, files, fs0, writes, error>>

\* ---------------------------------------------------------------------- main
\* total_bytes = sum(totals.values()); the entry list passed to build_svg
MainItems(d, top) ==
    IF SumSeq(Values(d)) = 0 THEN <<>> ELSE RankedItems(d, top)

Rank ==
    /\ pc = "rank"
    /\ total_bytes' = SumSeq(Values(totals))
    /\ items' = MainItems(totals, args.top)
    /\ pc' = "render"
    /\ UNCHANGED <<args, page, repos, pageLog, idx, totals, fetchLog, svg, dirs,
                   files, fs0, writes, error>>

\* svg = build_svg(items, total_bytes)
Render ==
    /\ pc = "render"
    /\ svg' = build_svg(items, total_bytes)
    /\ pc' = "makedirs"
    /\ UNCHANGED <<args, page, repos, pageLog, idx, totals, fetchLog, total_bytes,
                   items, dirs, files, fs0, writes, error>>

\* os.makedirs(os.path.dirname(args.output), exist_ok=True)
OutputDirs(ds, fl, output) == makedirs(ds, fl, dirname(output))

MakeDirs ==
    /\ pc = "makedirs"
    /\ LET made == OutputDirs(dirs, files, args.output)
       IN  IF made.ok
           THEN /\ dirs' = made.dirs
                /\ pc' = "write"
                /\ error' = error
           ELSE /\ dirs' = dirs
                /\ pc' = "aborted"
                /\ error' = "makedirs"
    /\ UNCHANGED <<args, page, repos, pageLog, idx, totals, fetchLog, total_bytes,
                   items, svg, files, fs0, writes>>

\* with open(args.output, "w", encoding="utf-8") as handle: handle.write(svg)
WriteFile ==
    /\ pc = "write"
    /\ IF CanOpenForWrite(dirs, args.output)
       THEN /\ files' = [f \in DOMAIN files \cup {args.output} |->
                            IF f = args.output THEN svg ELSE files[f]]
            /\ writes' = writes + 1
            /\ pc' = "done"
            /\ error' = error
       ELSE /\ UNCHANGED <<files, writes>>
            /\ pc' = "aborted"
            /\ error' = "open"
    /\ UNCHANGED <<args, page, repos, pageLog, idx, totals, fetchLog, total_bytes,
                   items, svg, dirs, fs0>>

Next ==
    \/ FetchPage
    \/ FetchEmptyPage
    \/ FetchPageFails
    \/ SkipRepo
    \/ FetchLanguages
    \/ FetchLanguagesFails
    \/ ReturnTotals
    \/ Rank
    \/ Render
    \/ MakeDirs
    \/ WriteFile

Spec == Init /\ [][Next]_vars

\* ================================================================== claims
\* Positions of the run, as the claims speak of them.
ListReturned == pc \notin {"list_repos"} /\ error # "list_repos"

CollectReturned == pc \notin {"list_repos", "collect"} /\ error # "list_repos"

Ranked == CollectReturned /\ pc # "rank"

Rendered == Ranked /\ pc # "render"

RunEnded == pc \in {"done", "aborted"}

\* The repositories the aggregator is meant to read.
Eligible(repo) ==
    /\ ~repo.fork
    /\ ~repo.archived
    /\ ~repo.disabled
    /\ repo.languages_url # ""

\* Bytes of one language over the successful fetches among log[1..n].
RECURSIVE FetchedBytes(_, _, _)
FetchedBytes(log, n, language) ==
    IF n = 0 THEN 0
    ELSE FetchedBytes(log, n - 1, language)
         + (IF log[n].ok THEN Get(log[n].languages, language, 0) ELSE 0)

\* The items of the pages log[1..n], in order.
RECURSIVE PagesConcat(_, _)
PagesConcat(log, n) ==
    IF n = 0 THEN <<>> ELSE PagesConcat(log, n - 1) \o log[n].data

Percents(entries) == [i \in 1..Len(entries) |-> entries[i].percent]

Hundred == Rat(100, 1)

\* The languages at positions above n of the descending sort.
OutsideFirst(sorted_langs, n) ==
    [i \in 1..(Len(sorted_langs) - Max(n, 0)) |-> sorted_langs[Max(n, 0) + i]]

HasOther == items # <<>> /\ items[Len(items)].name = "Other"

OfKind(kind) == SelectSeq(svg, LAMBDA e : e.kind = kind)

\* ---------------------------------------------------------------------- C1
\* C1: for every totals and every integer --top, the ranked entry list built
\* by main has at most top + 1 entries, and exactly top + 1 entries iff the
\* bytes of the languages outside the first top of the descending sort sum
\* to more than zero.
C1_AtMostTopPlusOne ==
    (Ranked /\ total_bytes # 0) =>
        /\ Len(items) <= args.top + 1
        /\ (Len(items) = args.top + 1)
            <=> (SumSeq(Values(OutsideFirst(SortedLangs(totals), args.top))) > 0)

\* With --top >= 0 the slices are the first top entries and the rest, and the
\* count is as C1 states it.
C1_NonNegativeTop == args.top >= 0 => C1_AtMostTopPlusOne

\* ---------------------------------------------------------------------- C2
\* C2 as stated: for every non-empty totals and every --top the percents of
\* the ranked entries sum to 100, and the kept bytes plus the bytes folded
\* into "Other" equal total_bytes.
C2_NonEmptySumsTo100 ==
    (Ranked /\ totals # <<>>) =>
        /\ REq(RSum(Percents(items)), Hundred)
        /\ SumSeq(Values(TopLangs(SortedLangs(totals), args.top)))
            + OtherBytes(SortedLangs(totals), args.top) = total_bytes

\* C2 amended: whenever total_bytes is not zero, for every --top, the percents
\* of the ranked entries sum to 100, and the kept bytes plus the bytes folded
\* into "Other" equal total_bytes: the split at --top loses no byte and
\* counts none twice.
C2_NonZeroSumsTo100 ==
    (Ranked /\ total_bytes # 0) =>
        /\ REq(RSum(Percents(items)), Hundred)
        /\ SumSeq(Values(TopLangs(SortedLangs(totals), args.top)))
            + OtherBytes(SortedLangs(totals), args.top) = total_bytes

C2_Witness ==
    /\ Ranked
    /\ total_bytes # 0
    /\ HasOther
    /\ Len(items) >= 2
    /\ args.top = -1

\* ---------------------------------------------------------------------- C3
\* C3: after collect_language_totals returns, the languages requests made are
\* exactly those of the listed repositories that are not fork, not archived,
\* not disabled and have a languages_url, in listing order, and every
\* language's total is the sum of its bytes over the requests that succeeded.
C3_TotalsAreSumOfFetched ==
    CollectReturned =>
        /\ \A j \in 1..Len(fetchLog) :
            /\ fetchLog[j].repo \in 1..Len(repos)
            /\ Eligible(repos[fetchLog[j].repo])
            /\ \A k \in 1..(j - 1) : fetchLog[k].repo < fetchLog[j].repo
        /\ \A i \in 1..Len(repos) :
            Eligible(repos[i]) => \E j \in 1..Len(fetchLog) : fetchLog[j].repo = i
        /\ \A language \in Languages :
            Get(totals, language, 0) = FetchedBytes(fetchLog, Len(fetchLog), language)
        /\ \A language \in Keys(totals) :
            \E j \in 1..Len(fetchLog) :
                fetchLog[j].ok /\ language \in Keys(fetchLog[j].languages)

C3_Witness ==
    /\ CollectReturned
    /\ \E i \in 1..Len(repos) : ~Eligible(repos[i])
    /\ Len(fetchLog) = 1
    /\ fetchLog[1].ok
    /\ totals # <<>>

\* ---------------------------------------------------------------------- C4
\* C4: list_repos requests pages 1, 2, 3, ... in order, requests nothing after
\* the first empty page, returns exactly when a page is empty, and returns
\* the concatenation, in order, of the pages before it (so two pages of n
\* items and an empty page give 2n descriptors).
C4_PagesInOrderUntilEmpty ==
    /\ \A i \in 1..Len(pageLog) : pageLog[i].page = i
    /\ \A i \in 1..(Len(pageLog) - 1) : pageLog[i].ok /\ pageLog[i].data # <<>>
    /\ ListReturned <=>
        /\ pageLog # <<>>
        /\ pageLog[Len(pageLog)].ok
        /\ pageLog[Len(pageLog)].data = <<>>
    /\ ListReturned =>
        /\ repos = PagesConcat(pageLog, Len(pageLog) - 1)
        /\ (Len(pageLog) = 3 /\ Len(pageLog[1].data) = Len(pageLog[2].data))
            => Len(repos) = 2 * Len(pageLog[1].data)

C4_Witness ==
    /\ ListReturned
    /\ Len(pageLog) = 3
    /\ pageLog[1].data # pageLog[2].data
    /\ Len(repos) = 2

\* ---------------------------------------------------------------------- C5
\* C5: a failed languages fetch leaves the totals as they were and the run in
\* the aggregation loop, at the next repository; every eligible repository,
\* also one after the failure, is still requested and the successful ones
\* accumulated; and a run with a failed fetch is never ended by it: it is
\* on its way through aggregation, ranking and rendering with no error, or
\* it has rendered the document and reached the file-write step.
FetchFailure == \E j \in 1..Len(fetchLog) : ~fetchLog[j].ok

C5_FailedFetchIsSkipped ==
    /\ [][(Len(fetchLog') = Len(fetchLog) + 1 /\ ~fetchLog'[Len(fetchLog')].ok)
            => /\ totals' = totals
               /\ pc' = "collect"
               /\ idx' = idx + 1
               /\ error' = "none"]_vars
    /\ [](CollectReturned =>
            /\ \A i \in 1..Len(repos) :
                Eligible(repos[i]) => \E j \in 1..Len(fetchLog) : fetchLog[j].repo = i
            /\ \A language \in Languages :
                Get(totals, language, 0)
                    = FetchedBytes(fetchLog, Len(fetchLog), language))
    /\ [](FetchFailure =>
            \/ pc \in {"collect", "rank", "render"} /\ error = "none"
            \/ /\ pc \in {"makedirs", "write", "done", "aborted"}
               /\ error \in {"none", "makedirs", "open"}
               /\ svg = build_svg(items, total_bytes))

C5_Witness ==
    /\ pc = "makedirs"
    /\ Len(fetchLog) = 2
    /\ ~fetchLog[1].ok
    /\ fetchLog[2].ok
    /\ total_bytes > 0

\* ---------------------------------------------------------------------- C6
\* C6: a failed listing page aborts the run: it is the last request made, no
\* languages request is made, no document is rendered, and the file system
\* is as it was before the run.
C6_ListingFailureAborts ==
    (\E i \in 1..Len(pageLog) : ~pageLog[i].ok) =>
        /\ ~pageLog[Len(pageLog)].ok
        /\ pc = "aborted"
        /\ error = "list_repos"
        /\ fetchLog = <<>>
        /\ totals = <<>>
        /\ svg = <<>>
        /\ writes = 0
        /\ dirs = fs0.dirs
        /\ files = fs0.files

C6_Witness ==
    /\ Len(pageLog) = 2
    /\ ~pageLog[2].ok
    /\ repos # <<>>
    /\ args.output \in DOMAIN files

\* ---------------------------------------------------------------------- C7
\* C7: when the total is zero main passes an empty entry list to build_svg;
\* build_svg with no entries or a zero total emits the "No language data"
\* line and no track, arc or legend row; and the run ends with that document
\* written to the output file.
C7_ZeroTotalWritesEmptyState ==
    /\ (Ranked /\ total_bytes = 0) => items = <<>>
    /\ (Rendered /\ (items = <<>> \/ total_bytes = 0)) =>
        /\ \E i \in 1..Len(svg) : svg[i] = EmptyState
        /\ OfKind("track") = <<>>
        /\ OfKind("arc") = <<>>
        /\ OfKind("legend") = <<>>
    /\ (RunEnded /\ CollectReturned /\ total_bytes = 0) =>
        /\ pc = "done"
        /\ args.output \in DOMAIN files
        /\ files[args.output] = svg

\* With a directory component in --output the whole of C7 holds.
C7_WithDirectory == dirname(args.output) # <<>> => C7_ZeroTotalWritesEmptyState

\* ---------------------------------------------------------------------- C8
\* C8: for every --output, once aggregation has completed the run ends with
\* the directories above the output present and the rendered document
\* written to it exactly once; nothing is written before rendering is done.
C8_OutputWrittenOnce ==
    /\ (RunEnded /\ CollectReturned) =>
        /\ pc = "done"
        /\ Ancestors(args.output) \subseteq dirs
        /\ writes = 1
        /\ args.output \in DOMAIN files
        /\ files[args.output] = svg
    /\ pc # "done" => (writes = 0 /\ files = fs0.files)

\* With a directory component in --output the run ends as C8 states it.
C8_WithDirectory == dirname(args.output) # <<>> => C8_OutputWrittenOnce

\* ---------------------------------------------------------------------- C9
\* C9: in the ranked list the named entries are in non-increasing order of
\* byte count, entry i (from 0) has palette color i mod 8, no entry but the
\* last is "Other", and "Other" has its fixed color; {A:50, B:30, C:20} with
\* --top 1 gives [A 50%, Other 50%].
Named == IF HasOther THEN SubSeq(items, 1, Len(items) - 1) ELSE items

C9_OrderColorsOtherLast ==
    (Ranked /\ total_bytes # 0) =>
        /\ \A i \in 1..(Len(Named) - 1) :
            /\ Get(totals, Named[i].name, 0) >= Get(totals, Named[i + 1].name, 0)
            /\ RLe(Named[i + 1].percent, Named[i].percent)
        /\ \A i \in 1..Len(Named) :
            /\ Named[i].color = palette[((i - 1) % 8) + 1]
            /\ Named[i].name \in Keys(totals)
        /\ HasOther => items[Len(items)].color = OtherColor
        /\ (Keys(totals) = {"A", "B", "C"} /\ Get(totals, "A", 0) = 50
            /\ Get(totals, "B", 0) = 30 /\ Get(totals, "C", 0) = 20
            /\ args.top = 1) =>
                /\ Len(items) = 2
                /\ items[1].name = "A"
                /\ REq(items[1].percent, Rat(50, 1))
                /\ items[1].color = palette[1]
                /\ items[2].name = "Other"
                /\ REq(items[2].percent, Rat(50, 1))
                /\ items[2].color = OtherColor

C9_Witness ==
    /\ Ranked
    /\ Len(Named) = 9
    /\ Named[9].color = palette[1]
    /\ HasOther
    /\ ~RLe(items[Len(items)].percent, Named[9].percent)

\* --------------------------------------------------------------------- C10
\* C10: for a non-empty entry list and a non-zero total, build_svg draws one
\* arc per entry of positive percent, in entry order, of length
\* circumference * percent / 100, starting where the arcs before it end;
\* the lengths total the circumference when the percents total 100; and
\* every entry, drawn or not, has its legend row.
Positive(entries) == SelectSeq(entries, LAMBDA e : ~RLe(e.percent, Zero))

Lengths(arcs) == [i \in 1..Len(arcs) |-> arcs[i].length]

C10_ArcsTileTheCircle ==
    (Rendered /\ items # <<>> /\ total_bytes # 0) =>
        LET arcs == OfKind("arc")
            rows == OfKind("legend")
            drawn == Positive(items)
        IN  /\ Len(arcs) = Len(drawn)
            /\ \A k \in 1..Len(arcs) :
                /\ arcs[k].color = drawn[k].color
                /\ REq(arcs[k].length,
                       Rat(drawn[k].percent.num, drawn[k].percent.den * 100))
                /\ REq(arcs[k].offset, RSum(SubSeq(Lengths(arcs), 1, k - 1)))
            /\ REq(RSum(Percents(items)), Hundred)
                => REq(RSum(Lengths(arcs)), Rat(1, 1))
            /\ Len(rows) = Len(items)
            /\ \A i \in 1..Len(rows) :
                /\ rows[i].name = items[i].name
                /\ rows[i].color = items[i].color
                /\ rows[i].percent = items[i].percent
                /\ rows[i].y = 92 + (i - 1) * 22

C10_Witness ==
    /\ Rendered
    /\ Len(OfKind("arc")) = 3
    /\ Len(OfKind("legend")) = 4
    /\ REq(items[4].percent, Zero)

====
